---- MODULE Spec2Model ----
(***************************************************************************)
(* GeoLocation (src/unnamed/part_001, duplicated without doc comments in   *)
(* src/unnamed/part_000): one GeoLocation instance, the startObserving     *)
(* calls made on it, and the three platform services it drives:            *)
(* PermissionsAndroid.requestMultiple, navigator.geolocation               *)
(* (getCurrentPosition / watchPosition / clearWatch) and GPSState          *)
(* (addListener / removeListener).                                         *)
(*                                                                         *)
(* The host runtime is single-threaded: every action below is one task of  *)
(* the JS event loop, run to completion.  `log` holds what the task that   *)
(* ran last did, in program order: first the stimulus that started it,     *)
(* then each platform call it made and each caller callback it made.       *)
(*                                                                         *)
(* The platform, as the code relies on it: clearWatch(id) ends the watch   *)
(* and its callbacks; a getCurrentPosition request is answered once, with  *)
(* a position or an error, and cannot be cancelled; GPSState holds one     *)
(* callback, which addListener replaces and removeListener drops.          *)
(***************************************************************************)
EXTENDS Integers, Sequences, FiniteSets

\* ------------------------------------------------------------ bounds
\* startObserving calls made on the instance
MaxCalls == 2
\* watch ids the platform hands out (0 .. MaxWatches - 1)
MaxWatches == 3
\* single-shot polls that may be pending at once
MaxPolls == 2

\* ------------------------------------------------------------ constants
MAX_ACCURACY == 10

PERMISSION_DENIED == 1
POSITION_UNAVAILABLE == 2
TIMEOUT == 3
UNKNOWN == 4

SEARCHING == 1
LOW_ACCURACY == 2
HIGH_ACCURACY == 3

\* errorMessages
MSG_PERMISSION_DENIED == "Location permission denied by user"
MSG_POSITION_UNAVAILABLE == "Location services are turned off"

\* the message of Error('Called startObserving more than once')
MSG_TWICE == "Called startObserving more than once"

\* `typeof this.watchId === 'undefined'`: the field before its first assignment
Undefined == -1
\* onUpdate() called without a position
NoFix == -1

\* ------------------------------------------------------------ inputs
Calls == 1..MaxCalls
\* accuracy radii around the threshold
Accuracies == {MAX_ACCURACY - 1, MAX_ACCURACY, MAX_ACCURACY + 1}
\* what the platform may report for one permission scope
Grants == {"granted", "denied", "never_ask_again"}
\* messages of a platform error raised by requestMultiple
PlatformMessages == {"E_INVALID_ACTIVITY"}
\* answers of PermissionsAndroid.requestMultiple: a mapping, or an exception
NoAnswer == [raised |-> FALSE, message |-> "", fine |-> "", coarse |-> ""]
Answers ==
    {[raised |-> FALSE, message |-> "", fine |-> f, coarse |-> k] :
        f \in {"granted", "denied"}, k \in Grants}
    \cup {[raised |-> TRUE, message |-> m, fine |-> "", coarse |-> ""] :
        m \in PlatformMessages}
\* statuses the GPSState event source emits
SignalStatuses == {"AUTHORIZED", "RESTRICTED", "DENIED"}
\* errors the location driver reports asynchronously
DriverErrors ==
    {[code |-> TIMEOUT, message |-> "timeout"],
     [code |-> POSITION_UNAVAILABLE, message |-> "unavailable"],
     [code |-> UNKNOWN, message |-> "unknown"]}

VARIABLES
    started,      \* this.started
    watchId,      \* this.watchId (Undefined before the first assignment)
    pc,           \* position of each startObserving call
    answer,       \* what requestMultiple answered in the task that ran last
    listener,     \* the call whose callback GPSState holds, 0 when none
    polls,        \* pending getCurrentPosition requests of each call
    watches,      \* the platform's active watch subscriptions
    nextWatchId,  \* the next id watchPosition returns
    stopped,      \* stopObserving has cleared a watch
    log           \* what the task that ran last did, in order

vars == <<started, watchId, pc, answer, listener, polls, watches, nextWatchId,
          stopped, log>>

\* ------------------------------------------------------------ log entries
Ev(ev, call, acc, num, txt) ==
    [ev |-> ev, call |-> call, acc |-> acc, num |-> num, txt |-> txt]

\* onLocation(position) with position.status set
LocationEv(c, acc, status, src) == Ev("onLocation", c, acc, status, src)

\* onError(err)
ErrorEv(c, err) == Ev("onError", c, NoFix, err.code, err.message)

\* ------------------------------------------------------------ pure helpers
createError(msg, errorCode) == [code |-> errorCode, message |-> msg]

\* requestLocationPermission reading the fine scope where the code reads the
\* coarse one.
requestLocationPermissionFine(ans) ==
    IF ans.raised
    THEN [ok |-> FALSE, err |-> createError(ans.message, UNKNOWN)]
    ELSE IF ans.fine # "granted"
         THEN [ok |-> FALSE,
               err |-> createError(MSG_PERMISSION_DENIED, PERMISSION_DENIED)]
         ELSE [ok |-> TRUE, err |-> createError("", 0)]

\* The outcome of requestLocationPermission for one platform answer.
requestLocationPermission(ans) ==
    IF ans.raised
    THEN [ok |-> FALSE, err |-> createError(ans.message, UNKNOWN)]
    ELSE IF ans.coarse # "granted"
         THEN [ok |-> FALSE,
               err |-> createError(MSG_PERMISSION_DENIED, PERMISSION_DENIED)]
         ELSE [ok |-> TRUE, err |-> createError("", 0)]

\* onUpdate comparing with >= where the code compares with >.
StatusOfOffByOne(acc) ==
    IF acc = NoFix THEN SEARCHING
    ELSE IF acc >= MAX_ACCURACY THEN LOW_ACCURACY
    ELSE HIGH_ACCURACY

\* The status onUpdate writes on the position it hands to onLocation.
StatusOf(acc) ==
    IF acc = NoFix THEN SEARCHING
    ELSE IF acc > MAX_ACCURACY THEN LOW_ACCURACY
    ELSE HIGH_ACCURACY

\* onUpdate(position) of call c: tags the position and calls onLocation.
onUpdate(c, acc, src) == LocationEv(c, acc, StatusOf(acc), src)

\* The number of getCurrentPosition requests the driver has not answered yet.
RECURSIVE PendingFrom(_, _)
PendingFrom(p, c) == IF c > MaxCalls THEN 0 ELSE p[c] + PendingFrom(p, c + 1)
Pending == PendingFrom(polls, 1)

\* navigator.geolocation.clearWatch(id) on the set of active watches.
clearWatch(ws, id) == {w \in ws : w.id # id}

\* ------------------------------------------------------------ initial state
Init ==
    /\ started = FALSE
    /\ watchId = Undefined
    /\ pc = [c \in Calls |-> "idle"]
    /\ answer = NoAnswer
    /\ listener = 0
    /\ polls = [c \in Calls |-> 0]
    /\ watches = {}
    /\ nextWatchId = 0
    /\ stopped = FALSE
    /\ log = <<>>

\* ------------------------------------------------------------ operations

\* startObserving up to its await: the started check, then the permission
\* request is sent and the call suspends.
StartObserving(c) ==
    /\ pc[c] = "idle"
    /\ \A d \in Calls : d < c => pc[d] # "idle"
    /\ IF started
       THEN /\ pc' = [pc EXCEPT ![c] = "threw"]
            /\ log' = <<Ev("startObserving", c, NoFix, 0, ""),
                        Ev("throw", c, NoFix, 0, MSG_TWICE)>>
       ELSE /\ pc' = [pc EXCEPT ![c] = "awaiting"]
            /\ log' = <<Ev("startObserving", c, NoFix, 0, ""),
                        Ev("requestMultiple", c, NoFix, 0, "")>>
    /\ answer' = NoAnswer
    /\ UNCHANGED <<started, watchId, listener, polls, watches,
                   nextWatchId, stopped>>

\* startObserving calling onUpdate() last, once the watch is created.
StartGrantedLateUpdate(c) ==
    /\ nextWatchId < MaxWatches
    /\ Pending < MaxPolls
    /\ started' = TRUE
    /\ listener' = c
    /\ polls' = [polls EXCEPT ![c] = @ + 1]
    /\ watches' = watches \cup
                  {[id |-> nextWatchId, mode |-> "escalating", call |-> c]}
    /\ watchId' = nextWatchId
    /\ nextWatchId' = nextWatchId + 1
    /\ pc' = [pc EXCEPT ![c] = "running"]
    /\ log' = <<Ev("permission", c, NoFix, 0, "granted"),
                Ev("addListener", c, NoFix, 0, ""),
                Ev("getCurrentPosition", c, NoFix, 0, "enableHighAccuracy: false"),
                Ev("watchPosition", c, NoFix, nextWatchId, "escalating"),
                onUpdate(c, NoFix, "synthetic")>>
    /\ UNCHANGED stopped

\* The rest of startObserving once permission is granted: lines 88-123.
StartGranted(c) ==
    /\ nextWatchId < MaxWatches
    /\ Pending < MaxPolls
    /\ started' = TRUE
    /\ listener' = c
    /\ polls' = [polls EXCEPT ![c] = @ + 1]
    /\ watches' = watches \cup
                  {[id |-> nextWatchId, mode |-> "escalating", call |-> c]}
    /\ watchId' = nextWatchId
    /\ nextWatchId' = nextWatchId + 1
    /\ pc' = [pc EXCEPT ![c] = "running"]
    /\ log' = <<Ev("permission", c, NoFix, 0, "granted"),
                onUpdate(c, NoFix, "synthetic"),
                Ev("addListener", c, NoFix, 0, ""),
                Ev("getCurrentPosition", c, NoFix, 0, "enableHighAccuracy: false"),
                Ev("watchPosition", c, NoFix, nextWatchId, "escalating")>>
    /\ UNCHANGED stopped

\* startObserving calling onError(err) without returning: it goes on as if
\* permission had been granted.
StartRefusedNoReturn(c, err) ==
    /\ nextWatchId < MaxWatches
    /\ Pending < MaxPolls
    /\ started' = TRUE
    /\ listener' = c
    /\ polls' = [polls EXCEPT ![c] = @ + 1]
    /\ watches' = watches \cup
                  {[id |-> nextWatchId, mode |-> "escalating", call |-> c]}
    /\ watchId' = nextWatchId
    /\ nextWatchId' = nextWatchId + 1
    /\ pc' = [pc EXCEPT ![c] = "running"]
    /\ log' = <<Ev("permission", c, NoFix, 0, "refused"),
                ErrorEv(c, err),
                onUpdate(c, NoFix, "synthetic"),
                Ev("addListener", c, NoFix, 0, ""),
                Ev("getCurrentPosition", c, NoFix, 0, "enableHighAccuracy: false"),
                Ev("watchPosition", c, NoFix, nextWatchId, "escalating")>>
    /\ UNCHANGED stopped

\* startObserving when requestLocationPermission threw: return onError(err).
StartRefused(c, err) ==
    /\ pc' = [pc EXCEPT ![c] = "failed"]
    /\ log' = <<Ev("permission", c, NoFix, 0, "refused"), ErrorEv(c, err)>>
    /\ UNCHANGED <<started, watchId, listener, polls, watches, nextWatchId,
                   stopped>>

\* The platform answers the permission request of call c; startObserving
\* resumes after its await and runs to its end.
PermissionAnswer(c, ans) ==
    /\ pc[c] = "awaiting"
    /\ answer' = ans
    /\ LET r == requestLocationPermission(ans)
       IN  IF r.ok THEN StartGranted(c) ELSE StartRefused(c, r.err)

\* The GPSState callback clearing the watch when location is turned off.
GPSStateCallbackStops(c, status) ==
    /\ IF status = "AUTHORIZED"
       THEN /\ Pending < MaxPolls
            /\ polls' = [polls EXCEPT ![c] = @ + 1]
            /\ log' = <<Ev("signal", c, NoFix, 0, status),
                        Ev("getCurrentPosition", c, NoFix, 0, "enableHighAccuracy: false"),
                        onUpdate(c, NoFix, "synthetic")>>
            /\ UNCHANGED watches
       ELSE IF status # "RESTRICTED"
       THEN /\ log' = <<Ev("signal", c, NoFix, 0, status)>>
            /\ UNCHANGED <<polls, watches>>
       ELSE /\ watches' = clearWatch(watches, watchId)
            /\ log' = <<Ev("signal", c, NoFix, 0, status),
                        Ev("clearWatch", c, NoFix, watchId, ""),
                        ErrorEv(c, createError(MSG_POSITION_UNAVAILABLE,
                                               POSITION_UNAVAILABLE))>>
            /\ UNCHANGED polls
    /\ answer' = NoAnswer
    /\ UNCHANGED <<started, watchId, pc, listener, nextWatchId, stopped>>

\* The GPSState callback without its `status !== RESTRICTED` return: every
\* status that reaches the end reports POSITION_UNAVAILABLE.
GPSStateCallbackNoReturn(c, status) ==
    /\ IF status = "AUTHORIZED"
       THEN /\ Pending < MaxPolls
            /\ polls' = [polls EXCEPT ![c] = @ + 1]
            /\ log' = <<Ev("signal", c, NoFix, 0, status),
                        Ev("getCurrentPosition", c, NoFix, 0, "enableHighAccuracy: false"),
                        onUpdate(c, NoFix, "synthetic"),
                        ErrorEv(c, createError(MSG_POSITION_UNAVAILABLE,
                                               POSITION_UNAVAILABLE))>>
       ELSE /\ log' = <<Ev("signal", c, NoFix, 0, status),
                        ErrorEv(c, createError(MSG_POSITION_UNAVAILABLE,
                                               POSITION_UNAVAILABLE))>>
            /\ UNCHANGED polls
    /\ answer' = NoAnswer
    /\ UNCHANGED <<started, watchId, pc, listener, watches,
                   nextWatchId, stopped>>

\* The GPSState callback with onUpdate() after its `if`, ahead of the
\* RESTRICTED test: every status is answered with a SEARCHING update.
GPSStateCallbackAlwaysUpdate(c, status) ==
    /\ IF status = "AUTHORIZED"
       THEN /\ Pending < MaxPolls
            /\ polls' = [polls EXCEPT ![c] = @ + 1]
            /\ log' = <<Ev("signal", c, NoFix, 0, status),
                        Ev("getCurrentPosition", c, NoFix, 0, "enableHighAccuracy: false"),
                        onUpdate(c, NoFix, "synthetic")>>
       ELSE IF status # "RESTRICTED"
       THEN /\ log' = <<Ev("signal", c, NoFix, 0, status),
                        onUpdate(c, NoFix, "synthetic")>>
            /\ UNCHANGED polls
       ELSE /\ log' = <<Ev("signal", c, NoFix, 0, status),
                        onUpdate(c, NoFix, "synthetic"),
                        ErrorEv(c, createError(MSG_POSITION_UNAVAILABLE,
                                               POSITION_UNAVAILABLE))>>
            /\ UNCHANGED polls
    /\ answer' = NoAnswer
    /\ UNCHANGED <<started, watchId, pc, listener, watches,
                   nextWatchId, stopped>>

\* The callback given to GPSState.addListener by call c, run with `status`.
GPSStateCallback(c, status) ==
    /\ IF status = "AUTHORIZED"
       THEN /\ Pending < MaxPolls
            /\ polls' = [polls EXCEPT ![c] = @ + 1]
            /\ log' = <<Ev("signal", c, NoFix, 0, status),
                        Ev("getCurrentPosition", c, NoFix, 0, "enableHighAccuracy: false"),
                        onUpdate(c, NoFix, "synthetic")>>
       ELSE IF status # "RESTRICTED"
       THEN /\ log' = <<Ev("signal", c, NoFix, 0, status)>>
            /\ UNCHANGED polls
       ELSE /\ log' = <<Ev("signal", c, NoFix, 0, status),
                        ErrorEv(c, createError(MSG_POSITION_UNAVAILABLE,
                                               POSITION_UNAVAILABLE))>>
            /\ UNCHANGED polls
    /\ answer' = NoAnswer
    /\ UNCHANGED <<started, watchId, pc, listener, watches,
                   nextWatchId, stopped>>

\* GPSState emits a status to the callback it holds.
Signal(status) ==
    /\ listener # 0
    /\ GPSStateCallback(listener, status)

\* A pending getCurrentPosition of call c succeeds: success = onUpdate.
PollFix(c, acc) ==
    /\ polls[c] > 0
    /\ polls' = [polls EXCEPT ![c] = @ - 1]
    /\ log' = <<Ev("pollFix", c, acc, 0, ""), onUpdate(c, acc, "poll")>>
    /\ answer' = NoAnswer
    /\ UNCHANGED <<started, watchId, pc, listener, watches,
                   nextWatchId, stopped>>

\* A pending getCurrentPosition of call c fails: error = onError.
PollError(c, err) ==
    /\ polls[c] > 0
    /\ polls' = [polls EXCEPT ![c] = @ - 1]
    /\ log' = <<Ev("pollError", c, NoFix, err.code, ""), ErrorEv(c, err)>>
    /\ answer' = NoAnswer
    /\ UNCHANGED <<started, watchId, pc, listener, watches,
                   nextWatchId, stopped>>

\* The escalating watch's callback with onUpdate(position) inside its `if`:
\* a position that is not accurate enough is dropped.
UntilAccurateCallbackSilent(w, acc) ==
    /\ IF acc <= MAX_ACCURACY
       THEN /\ nextWatchId < MaxWatches
            /\ watches' = clearWatch(watches, watchId) \cup
                          {[id |-> nextWatchId, mode |-> "movement",
                            call |-> w.call]}
            /\ watchId' = nextWatchId
            /\ nextWatchId' = nextWatchId + 1
            /\ log' = <<Ev("watchFix", w.call, acc, w.id, w.mode),
                        Ev("clearWatch", w.call, NoFix, watchId, ""),
                        Ev("watchPosition", w.call, NoFix, nextWatchId,
                           "movement"),
                        onUpdate(w.call, acc, "escalating")>>
       ELSE /\ log' = <<Ev("watchFix", w.call, acc, w.id, w.mode)>>
            /\ UNCHANGED <<watches, watchId, nextWatchId>>
    /\ answer' = NoAnswer
    /\ UNCHANGED <<started, pc, listener, polls, stopped>>

\* The escalating watch's callback without its clearWatch: the movement
\* watch is added and the escalating one keeps running.
UntilAccurateCallbackNoClear(w, acc) ==
    /\ IF acc <= MAX_ACCURACY
       THEN /\ nextWatchId < MaxWatches
            /\ watches' = watches \cup
                          {[id |-> nextWatchId, mode |-> "movement",
                            call |-> w.call]}
            /\ watchId' = nextWatchId
            /\ nextWatchId' = nextWatchId + 1
            /\ log' = <<Ev("watchFix", w.call, acc, w.id, w.mode),
                        Ev("watchPosition", w.call, NoFix, nextWatchId,
                           "movement"),
                        onUpdate(w.call, acc, "escalating")>>
       ELSE /\ log' = <<Ev("watchFix", w.call, acc, w.id, w.mode),
                        onUpdate(w.call, acc, "escalating")>>
            /\ UNCHANGED <<watches, watchId, nextWatchId>>
    /\ answer' = NoAnswer
    /\ UNCHANGED <<started, pc, listener, polls, stopped>>

\* The escalating watch's callback with onUpdate(position) ahead of its `if`:
\* the position is handed over while the escalating watch is still active.
UntilAccurateCallbackDeliverFirst(w, acc) ==
    /\ IF acc <= MAX_ACCURACY
       THEN /\ nextWatchId < MaxWatches
            /\ watches' = clearWatch(watches, watchId) \cup
                          {[id |-> nextWatchId, mode |-> "movement",
                            call |-> w.call]}
            /\ watchId' = nextWatchId
            /\ nextWatchId' = nextWatchId + 1
            /\ log' = <<Ev("watchFix", w.call, acc, w.id, w.mode),
                        onUpdate(w.call, acc, "escalating"),
                        Ev("clearWatch", w.call, NoFix, watchId, ""),
                        Ev("watchPosition", w.call, NoFix, nextWatchId,
                           "movement")>>
       ELSE /\ log' = <<Ev("watchFix", w.call, acc, w.id, w.mode),
                        onUpdate(w.call, acc, "escalating")>>
            /\ UNCHANGED <<watches, watchId, nextWatchId>>
    /\ answer' = NoAnswer
    /\ UNCHANGED <<started, pc, listener, polls, stopped>>

\* The success callback given to watchPositionUntilAccurate by call w.call,
\* run with a position of accuracy acc.
UntilAccurateCallback(w, acc) ==
    /\ IF acc <= MAX_ACCURACY
       THEN /\ nextWatchId < MaxWatches
            /\ watches' = clearWatch(watches, watchId) \cup
                          {[id |-> nextWatchId, mode |-> "movement",
                            call |-> w.call]}
            /\ watchId' = nextWatchId
            /\ nextWatchId' = nextWatchId + 1
            /\ log' = <<Ev("watchFix", w.call, acc, w.id, w.mode),
                        Ev("clearWatch", w.call, NoFix, watchId, ""),
                        Ev("watchPosition", w.call, NoFix, nextWatchId,
                           "movement"),
                        onUpdate(w.call, acc, "escalating")>>
       ELSE /\ log' = <<Ev("watchFix", w.call, acc, w.id, w.mode),
                        onUpdate(w.call, acc, "escalating")>>
            /\ UNCHANGED <<watches, watchId, nextWatchId>>
    /\ answer' = NoAnswer
    /\ UNCHANGED <<started, pc, listener, polls, stopped>>

\* The success callback given to watchPositionForMovement: onUpdate itself.
ForMovementCallback(w, acc) ==
    /\ log' = <<Ev("watchFix", w.call, acc, w.id, w.mode),
                onUpdate(w.call, acc, "movement")>>
    /\ answer' = NoAnswer
    /\ UNCHANGED <<started, watchId, pc, listener, polls, watches,
                   nextWatchId, stopped>>

\* An active watch reports a position.
WatchFix(w, acc) ==
    /\ w \in watches
    /\ IF w.mode = "escalating"
       THEN UntilAccurateCallback(w, acc)
       ELSE ForMovementCallback(w, acc)

\* A watch error handler that gives up the watch before reporting.
WatchErrorStops(w, err) ==
    /\ w \in watches
    /\ watches' = clearWatch(watches, w.id)
    /\ log' = <<Ev("watchError", w.call, NoFix, err.code, w.mode),
                Ev("clearWatch", w.call, NoFix, w.id, ""),
                ErrorEv(w.call, err)>>
    /\ answer' = NoAnswer
    /\ UNCHANGED <<started, watchId, pc, listener, polls, nextWatchId, stopped>>

\* An active watch reports an error: both watches were given onError.
WatchError(w, err) ==
    /\ w \in watches
    /\ log' = <<Ev("watchError", w.call, NoFix, err.code, w.mode),
                ErrorEv(w.call, err)>>
    /\ answer' = NoAnswer
    /\ UNCHANGED <<started, watchId, pc, listener, polls, watches,
                   nextWatchId, stopped>>

\* stopObserving without its `typeof this.watchId === 'undefined'` return.
StopObservingUnguarded ==
    /\ watches' = clearWatch(watches, watchId)
    /\ listener' = 0
    /\ stopped' = TRUE
    /\ log' = <<Ev("stopObserving", 0, NoFix, 0, ""),
                Ev("clearWatch", 0, NoFix, watchId, ""),
                Ev("removeListener", 0, NoFix, 0, "")>>
    /\ answer' = NoAnswer
    /\ UNCHANGED <<started, watchId, pc, polls, nextWatchId>>

\* stopObserving resetting the Session so that it can be started again.
StopObservingResets ==
    /\ IF watchId = Undefined
       THEN /\ log' = <<Ev("stopObserving", 0, NoFix, 0, "")>>
            /\ UNCHANGED <<watches, listener, stopped, started>>
       ELSE /\ watches' = clearWatch(watches, watchId)
            /\ listener' = 0
            /\ stopped' = TRUE
            /\ started' = FALSE
            /\ log' = <<Ev("stopObserving", 0, NoFix, 0, ""),
                        Ev("clearWatch", 0, NoFix, watchId, ""),
                        Ev("removeListener", 0, NoFix, 0, "")>>
    /\ answer' = NoAnswer
    /\ UNCHANGED <<watchId, pc, polls, nextWatchId>>

\* stopObserving()
StopObserving ==
    /\ IF watchId = Undefined
       THEN /\ log' = <<Ev("stopObserving", 0, NoFix, 0, "")>>
            /\ UNCHANGED <<watches, listener, stopped>>
       ELSE /\ watches' = clearWatch(watches, watchId)
            /\ listener' = 0
            /\ stopped' = TRUE
            /\ log' = <<Ev("stopObserving", 0, NoFix, 0, ""),
                        Ev("clearWatch", 0, NoFix, watchId, ""),
                        Ev("removeListener", 0, NoFix, 0, "")>>
    /\ answer' = NoAnswer
    /\ UNCHANGED <<started, watchId, pc, polls, nextWatchId>>

Next ==
    \/ \E c \in Calls : StartObserving(c)
    \/ \E c \in Calls, ans \in Answers : PermissionAnswer(c, ans)
    \/ \E s \in SignalStatuses : Signal(s)
    \/ \E c \in Calls, acc \in Accuracies : PollFix(c, acc)
    \/ \E c \in Calls, err \in DriverErrors : PollError(c, err)
    \/ \E w \in watches, acc \in Accuracies : WatchFix(w, acc)
    \/ \E w \in watches, err \in DriverErrors : WatchError(w, err)
    \/ StopObserving

Spec == Init /\ [][Next]_vars

\* The driver answers a poll or a watch with a position.
DriverFix ==
    \/ \E c \in Calls, acc \in Accuracies : PollFix(c, acc)
    \/ \E w \in watches, acc \in Accuracies : WatchFix(w, acc)

\* The driver does not withhold positions for ever from a request it holds.
FairSpec == Spec /\ WF_vars(DriverFix)

\* ------------------------------------------------------------ properties

\* What a task did, without the stimulus that started it.
Effects(l) ==
    SelectSeq(l, LAMBDA e : e.ev \in {"throw", "requestMultiple", "onLocation",
                                      "onError", "addListener", "removeListener",
                                      "getCurrentPosition", "watchPosition",
                                      "clearWatch"})

\* The caller callbacks a task made.
Callbacks(l) == SelectSeq(l, LAMBDA e : e.ev \in {"onLocation", "onError"})

\* The task that ran last was the GPSState callback, run with `status`.
SignalTask(l, status) ==
    /\ l # <<>>
    /\ l[1].ev = "signal"
    /\ l[1].txt = status

\* Call c holds nothing of the platform.
HoldsNothing(c, lsn, pls, ws) ==
    /\ lsn # c
    /\ pls[c] = 0
    /\ \A w \in ws : w.call # c

\* Call c is the only startObserving call made on the instance.
OnlyCall(c) == \A d \in Calls : d # c => pc[d] = "idle"

\* C1: once stopObserving has cleared the watch of a Session started once,
\* no task invokes onLocation or onError any more, the completion of a
\* single-shot poll dispatched before the stop included.
C1_NoCallbackAfterStop ==
    [][(stopped /\ \E c \in Calls : OnlyCall(c)) =>
          Callbacks(log') = <<>>]_vars

\* C2: every startObserving call after the first one on the instance throws
\* 'Called startObserving more than once' and goes no further.
C2_SecondStartThrows ==
    \A c \in Calls : (c > 1 /\ pc[c] # "idle") => pc[c] = "threw"

\* C3: at most one watch subscription created by the Session is active.
C3_AtMostOneWatch == Cardinality(watches) <= 1

\* C4: every update handed to onLocation carries SEARCHING when it has no
\* fix, HIGH_ACCURACY when its radius is <= 10 and LOW_ACCURACY when it is
\* > 10, whichever of the poll, the escalating watch and the movement-gated
\* watch produced it.
C4_StatusFromPayload ==
    \A i \in DOMAIN log :
        log[i].ev = "onLocation" =>
            /\ log[i].acc = NoFix => log[i].num = 1
            /\ (log[i].acc # NoFix /\ log[i].acc <= 10) => log[i].num = 3
            /\ log[i].acc > 10 => log[i].num = 2

C4_Witness ==
    \E i \in DOMAIN log :
        /\ log[i].ev = "onLocation"
        /\ log[i].txt = "movement"
        /\ log[i].acc = 11
        /\ log[i].num = 2

\* C5: when the permission request ends with the coarse scope not granted,
\* the call invokes onError once with PERMISSION_DENIED and its message and
\* does nothing else: no onLocation, no listener, no poll, no watch, then and
\* ever after.
C5_DeniedStart ==
    [][\A c \in Calls :
        /\ (pc[c] = "awaiting" /\ pc'[c] # "awaiting"
            /\ ~answer'.raised /\ answer'.coarse # "granted") =>
              /\ Effects(log') =
                   <<Ev("onError", c, NoFix, 1,
                        "Location permission denied by user")>>
              /\ pc'[c] = "failed"
              /\ HoldsNothing(c, listener', polls', watches')
              /\ UNCHANGED <<started, watchId, listener, polls, watches>>
        /\ pc[c] = "failed" =>
              /\ pc'[c] = "failed"
              /\ HoldsNothing(c, listener', polls', watches')
              /\ \A i \in DOMAIN log' : log'[i].call # c]_vars

C5_Witness ==
    \E c \in Calls :
        /\ pc[c] = "failed"
        /\ answer.fine = "granted"
        /\ answer.coarse = "denied"
        /\ Callbacks(log) = <<Ev("onError", c, NoFix, 1,
                                 "Location permission denied by user")>>

\* C6: the permission gate lets a call through exactly when the platform
\* answered without raising and the coarse scope is 'granted', whatever the
\* fine scope; otherwise the call fails with PERMISSION_DENIED (coarse not
\* granted) or with UNKNOWN and the platform's message (the request raised).
C6_PermissionGate ==
    [][\A c \in Calls :
        (pc[c] = "awaiting" /\ pc'[c] # "awaiting") =>
            /\ pc'[c] = "running" <=>
                  (~answer'.raised /\ answer'.coarse = "granted")
            /\ (~answer'.raised /\ answer'.coarse # "granted") =>
                  /\ pc'[c] = "failed"
                  /\ Callbacks(log') =
                       <<Ev("onError", c, NoFix, 1,
                            "Location permission denied by user")>>
            /\ answer'.raised =>
                  /\ pc'[c] = "failed"
                  /\ Callbacks(log') =
                       <<Ev("onError", c, NoFix, 4, answer'.message)>>]_vars

C6_Witness ==
    \E c \in Calls :
        /\ pc[c] = "running"
        /\ ~answer.raised
        /\ answer.fine = "denied"
        /\ answer.coarse = "granted"

\* The entries of a task's log that are callbacks made for call c.
CallbacksOf(l, c) ==
    SelectSeq(l, LAMBDA e : e.ev \in {"onLocation", "onError"} /\ e.call = c)

\* C7: the first onLocation of a call is the SEARCHING update without a
\* fix: until permission is granted the call holds no listener, no poll and
\* no watch and is handed no update, and the task that resumes it on the
\* grant makes the SEARCHING update first, before it registers the listener,
\* dispatches the poll and creates the watch, and delivers nothing else.
C7_FirstUpdateSearching ==
    [][\A c \in Calls :
        /\ pc[c] \in {"idle", "awaiting"} =>
              /\ HoldsNothing(c, listener, polls, watches)
              /\ pc'[c] \in {"idle", "awaiting"} => CallbacksOf(log', c) = <<>>
              /\ pc'[c] \notin {"idle", "awaiting", "running"} =>
                    \A i \in DOMAIN log' : log'[i].ev # "onLocation"
        /\ (pc[c] # "running" /\ pc'[c] = "running") =>
              /\ Effects(log')[1] = Ev("onLocation", c, NoFix, 1, "synthetic")
              /\ [i \in 1..(Len(Effects(log')) - 1) |-> Effects(log')[i + 1].ev]
                   = <<"addListener", "getCurrentPosition", "watchPosition">>
              /\ CallbacksOf(log', c) =
                   <<Ev("onLocation", c, NoFix, 1, "synthetic")>>]_vars

C7_Witness ==
    \E c \in Calls :
        /\ pc[c] = "running"
        /\ Len(log) = 5
        /\ log[2] = Ev("onLocation", c, NoFix, 1, "synthetic")
        /\ log[3].ev = "addListener"

\* The task that ran last handed call c an update that carries a fix.
FixDelivered(c) ==
    \E i \in DOMAIN log :
        /\ log[i].ev = "onLocation"
        /\ log[i].call = c
        /\ log[i].num # 1

\* C8: a Session started once (calls are numbered in the order they are
\* made, so its call is call 1), permission granted and not stopped, whose
\* driver keeps answering, eventually hands the caller an update whose status
\* is not SEARCHING (unless it is stopped first).
C8_EventuallyFix ==
    (OnlyCall(1) /\ pc[1] = "running" /\ ~stopped)
        ~> (FixDelivered(1) \/ stopped)

C8_Witness ==
    /\ OnlyCall(1)
    /\ pc[1] = "running"
    /\ ~stopped
    /\ FixDelivered(1)

\* C9: a RESTRICTED signal makes the listener invoke onError once, with
\* POSITION_UNAVAILABLE, and leaves the started flag, the watch (handle and
\* mode), the listener registration and the pending polls as they were.
C9_Restricted ==
    [][SignalTask(log', "RESTRICTED") =>
        /\ Effects(log') =
             <<Ev("onError", listener, NoFix, 2,
                  "Location services are turned off")>>
        /\ UNCHANGED <<started, watchId, watches, listener, polls, pc>>]_vars

C9_Witness ==
    /\ SignalTask(log, "RESTRICTED")
    /\ Len(log) = 2
    /\ log[2].ev = "onError"
    /\ \E w \in watches : w.id = watchId /\ w.call = listener

\* C10: an AUTHORIZED signal makes the listener dispatch one low-accuracy
\* single-shot poll and hand the caller one SEARCHING update without a fix,
\* and no error, leaving the watch alone; a signal that is neither
\* AUTHORIZED nor RESTRICTED makes it do nothing.
C10_Authorized ==
    [][/\ SignalTask(log', "AUTHORIZED") =>
            /\ Effects(log') =
                 <<Ev("getCurrentPosition", listener, NoFix, 0,
                      "enableHighAccuracy: false"),
                   Ev("onLocation", listener, NoFix, 1, "synthetic")>>
            /\ polls' = [polls EXCEPT ![listener] = @ + 1]
            /\ UNCHANGED <<started, watchId, watches, listener, pc>>
       /\ SignalTask(log', "DENIED") =>
            /\ Effects(log') = <<>>
            /\ UNCHANGED <<started, watchId, watches, listener, pc,
                           polls>>]_vars

C10_Witness ==
    /\ SignalTask(log, "AUTHORIZED")
    /\ Len(log) = 3
    /\ polls[listener] = 2
    /\ \E w \in watches : w.id = watchId /\ w.call = listener


\* The watch this.watchId names is active and movement-gated.
MovementGated ==
    \E w \in watches : w.id = watchId /\ w.mode = "movement"

\* The sources of the fixes a task handed to onLocation.
FixSources(l) ==
    {l[i].txt : i \in {j \in DOMAIN l : l[j].ev = "onLocation" /\ l[j].acc # NoFix}}

StopTask(l) ==
    /\ l # <<>>
    /\ l[1].ev = "stopObserving"

\* C12: stopObserving on a Session without a watch handle (never started,
\* permission failed or still pending) makes no platform call and changes
\* nothing; a stopObserving call that directly follows another one on a
\* Session with a handle changes nothing either, and leaves no watch under
\* the handle and no listener.
C12_StopIdempotent ==
    [][StopTask(log') =>
        /\ watchId = Undefined =>
              /\ Effects(log') = <<>>
              /\ UNCHANGED <<started, watchId, pc, listener, polls, watches,
                             nextWatchId, stopped>>
        /\ (watchId # Undefined /\ StopTask(log)) =>
              /\ UNCHANGED <<started, watchId, pc, listener, polls, watches,
                             nextWatchId, stopped>>
              /\ listener' = 0
              /\ \A w \in watches' : w.id # watchId]_vars

\* stopObserving called while the permission request is pending.
C12_Witness ==
    /\ StopTask(log)
    /\ Len(log) = 1
    /\ pc[1] = "awaiting"
    /\ watchId = Undefined


\* C13: when stopObserving was called on a Session started once whose
\* permission request is still pending, the task that runs next (the
\* permission answer, granted or not) invokes neither onLocation nor onError
\* and leaves the Session without watch and without listener.
C13_StopWhileAwaiting ==
    [][(StopTask(log) /\ OnlyCall(1) /\ pc[1] = "awaiting") =>
        /\ Callbacks(log') = <<>>
        /\ watches' = {}
        /\ listener' = 0]_vars


\* The task handed onLocation a fix tagged HIGH_ACCURACY.
HighAccuracyDelivered(l) ==
    \E i \in DOMAIN l : l[i].ev = "onLocation" /\ l[i].num = 3

\* C14: on a Session started once, a task that hands onLocation a
\* HIGH_ACCURACY fix (radius <= 10), from the escalating watch or from a
\* single-shot poll, leaves no escalating watch active: the escalating watch
\* has been replaced by the movement-gated one.
C14_AccurateFixSwitches ==
    [][(OnlyCall(1) /\ HighAccuracyDelivered(log')) =>
          \A w \in watches' : w.mode # "escalating"]_vars


\* A movement-gated watch is active.
MovementActive == \E w \in watches : w.mode = "movement"

\* The task created a watch.
WatchCreated(l) == \E i \in DOMAIN l : l[i].ev = "watchPosition"

\* C15: once a movement-gated watch is active, no task other than
\* stopObserving creates a watch again (no second switch, no new escalating
\* watch) or ends the movement-gated mode, and a movement-gated fix of radius
\* > 10 is handed to onLocation tagged LOW_ACCURACY.
C15_SwitchOnce ==
    [][(MovementActive /\ ~StopTask(log')) =>
        /\ ~WatchCreated(log')
        /\ MovementActive'
        /\ \A w \in watches : w.mode # "escalating"
        /\ (log'[1].ev = "watchFix" /\ log'[1].txt = "movement"
            /\ log'[1].acc > 10) =>
              Effects(log') =
                <<Ev("onLocation", log'[1].call, log'[1].acc, 2, "movement")>>]_vars


\* The task that ran last was started by a driver error, of a poll or a watch.
DriverErrorTask(l) ==
    /\ l # <<>>
    /\ l[1].ev \in {"pollError", "watchError"}

\* C16: a driver error (TIMEOUT, POSITION_UNAVAILABLE or UNKNOWN) of the
\* single-shot poll, the escalating watch or the movement-gated watch is
\* handed to onError of its call once, with its code, with no onLocation and
\* no platform call, and leaves the started flag, the watch handle, the
\* active watches and the listener as they were.
C16_DriverErrorForwarded ==
    [][DriverErrorTask(log') =>
        /\ Len(Effects(log')) = 1
        /\ Effects(log')[1].ev = "onError"
        /\ Effects(log')[1].call = log'[1].call
        /\ Effects(log')[1].num = log'[1].num
        /\ \E e \in DriverErrors :
              Effects(log')[1] = Ev("onError", log'[1].call, NoFix, e.code,
                                    e.message)
        /\ UNCHANGED <<started, watchId, watches, listener, pc>>]_vars

\* The movement-gated watch times out.
C16_Witness ==
    /\ DriverErrorTask(log)
    /\ log[1].ev = "watchError"
    /\ log[1].txt = "movement"
    /\ log[2] = Ev("onError", log[1].call, NoFix, 3, "timeout")
    /\ MovementGated


\* The task that ran last was the escalating watch's callback, run with a
\* position of radius <= MAX_ACCURACY.
SwitchTask(l) ==
    /\ l # <<>>
    /\ l[1].ev = "watchFix"
    /\ l[1].txt = "escalating"
    /\ l[1].acc <= MAX_ACCURACY

\* C17: when the escalating watch reports a fix of radius <= 10, the task
\* clears the watch the Session holds, then creates the movement-gated watch,
\* and only then hands the fix to onLocation, once, as HIGH_ACCURACY: when
\* onLocation runs, the handle names the new movement-gated watch, the watch
\* of the old handle is gone and, on a Session started once, no escalating
\* watch is left.
C17_SwitchBeforeDelivery ==
    [][SwitchTask(log') =>
        /\ Effects(log') =
              <<Ev("clearWatch", log'[1].call, NoFix, watchId, ""),
                Ev("watchPosition", log'[1].call, NoFix, watchId', "movement"),
                LocationEv(log'[1].call, log'[1].acc, HIGH_ACCURACY,
                           "escalating")>>
        /\ watchId' # watchId
        /\ \E w \in watches' : w.id = watchId' /\ w.mode = "movement"
        /\ \A w \in watches' : w.id # watchId
        /\ OnlyCall(1) => \A w \in watches' : w.mode = "movement"]_vars

\* The escalating watch of a Session started once has just reported a fix of
\* radius exactly MAX_ACCURACY and the Session is movement-gated.
C17_Witness ==
    /\ SwitchTask(log)
    /\ log[1].acc = MAX_ACCURACY
    /\ OnlyCall(1)
    /\ MovementGated
    /\ Len(log) = 4
    /\ log[4].ev = "onLocation"


\* The SEARCHING updates a task handed to onLocation.
Searchings(l) ==
    SelectSeq(l, LAMBDA e : e.ev = "onLocation" /\ e.num = SEARCHING)

\* The task that ran last resumed startObserving on a grant.
GrantTask(l) ==
    /\ l # <<>>
    /\ l[1].ev = "permission"
    /\ l[1].txt = "granted"

\* C18: a SEARCHING update is made only by the task that resumes
\* startObserving on the grant, as its first callback, and by the task that
\* handles an AUTHORIZED signal, one each and without a fix; every other
\* task (a fix of a poll or a watch, a driver error, a RESTRICTED or other
\* signal, a refusal, stopObserving) makes none. Task by task this is the
\* count of SEARCHING updates of a Session started once: one for the grant
\* and one more per AUTHORIZED signal handled.
C18_SearchingOnlyOnGrantOrAuthorized ==
    [][/\ Len(Searchings(log')) =
             IF GrantTask(log') \/ SignalTask(log', "AUTHORIZED") THEN 1 ELSE 0
       /\ \A i \in DOMAIN Searchings(log') :
             /\ Searchings(log')[i].acc = NoFix
             /\ Searchings(log')[i].call = log'[1].call
       /\ GrantTask(log') => Callbacks(log')[1].num = SEARCHING
       /\ \A i \in DOMAIN log' :
             (log'[i].ev = "onLocation" /\ log'[i].acc # NoFix) =>
                 log'[i].num # SEARCHING]_vars

\* A movement-gated Session started once has just answered an AUTHORIZED
\* signal with a SEARCHING update.
C18_Witness ==
    /\ SignalTask(log, "AUTHORIZED")
    /\ OnlyCall(1)
    /\ MovementGated
    /\ Len(Searchings(log)) = 1


\* C19: the started flag is never cleared once startObserving has set it
\* past the permission gate, whatever task runs next (stopObserving, a fix,
\* an error, a signal), and every startObserving call made while it is set,
\* after stopObserving included, throws the precondition violation and does
\* nothing else: no permission request, no callback, no listener, poll or
\* watch.
C19_StartedMonotone ==
    [][started =>
        /\ started'
        /\ \A c \in Calls :
              (pc[c] = "idle" /\ pc'[c] # "idle") =>
                  /\ pc'[c] = "threw"
                  /\ Effects(log') = <<Ev("throw", c, NoFix, 0, MSG_TWICE)>>
                  /\ UNCHANGED <<started, watchId, listener, polls, watches,
                                 nextWatchId, stopped>>]_vars

\* startObserving has just been called on a stopped Session and threw.
C19_Witness ==
    /\ stopped
    /\ started
    /\ log # <<>>
    /\ log[1].ev = "startObserving"
    /\ pc[log[1].call] = "threw"
    /\ watches = {}

====
